---- MODULE Spec2Model ----
(***************************************************************************)
(* Model of src/stock_analysis/main.py: the fetch -> extract -> persist    *)
(* pipeline (get_response, response_to_df, create_database_path,           *)
(* create_sql_db, scrape_data) and the read path (get_table_overview).     *)
(*                                                                         *)
(* The program is single threaded.  One call of get_table_overview or      *)
(* scrape_data is in progress at a time; pc is the position inside it, one *)
(* step per helper call.  The environment (calendar date, HTTP outcome,    *)
(* file system and store failures) is chosen nondeterministically.         *)
(***************************************************************************)
EXTENDS Integers, Sequences, FiniteSets, TLC

VARIABLES
    today,          \* datetime.now().date(), a record [y, m, d]
    baseDir,        \* state of src/database on disk
    files,          \* file name -> content of the store file of that name
    openConns,      \* sqlite3 connections that are open (never closed yet)
    call,           \* operation in progress or last finished: "none", "overview", "scrape"
    pc,             \* position inside the operation, "idle" between operations
    database_path,  \* get_table_overview's local database_path
    db_path,        \* scrape_data's local db_path
    httpStatus,     \* response.status_code of the operation's request, 0 without a response
    response,       \* scrape_data's local response (the HTTP body)
    df,             \* scrape_data's local df
    result,         \* how the last finished operation ended
    trace,          \* stages the operation in progress has run, in order
    warnings,       \* logger.warning calls of the last response_to_df
    inspected,      \* entries the last response_to_df has looked at
    fetches,        \* requests.post calls of the operation in progress
    writes,         \* store connections opened for writing by the operation
    files0,         \* files as they were when the operation started
    existed,        \* outcome of database_path.exists(): "unknown", "absent", "present"
    pathLog         \* every <<date, path>> create_database_path has returned

vars == <<today, baseDir, files, openConns, call, pc, database_path, db_path,
          httpStatus, response, df, result, trace, warnings, inspected, fetches, writes,
          files0, existed, pathLog>>

(***************************************************************************)
(* Bounds                                                                  *)
(***************************************************************************)
MaxEntries == 2     \* longest `data` array drawn for response_to_df
MaxRows == 2        \* most rows of a DataFrame drawn for create_sql_db
MaxDays == 1        \* how many times midnight passes
MaxSaves == 3       \* longest sequence of create_sql_db calls on one path

(***************************************************************************)
(* Configuration constants (constant_parameters.COLUMNS)                   *)
(***************************************************************************)
COLUMNS == <<"id", "name">>
NumCols == Len(COLUMNS)
TableName == "stock_data"
ErrorClass == "TradingViewError"

(***************************************************************************)
(* Scalars.  A JSON / Python scalar is <<type, text>>.                     *)
(***************************************************************************)
Null == <<"null", "">>
I1 == <<"int", "1">>
SA == <<"str", "A">>
Cells == {I1, SA, Null}

RECURSIVE SeqsOfLen(_, _)
SeqsOfLen(S, n) ==
    IF n = 0 THEN {<<>>}
    ELSE {Append(s, x) : s \in SeqsOfLen(S, n - 1), x \in S}

SeqsUpTo(S, n) == UNION {SeqsOfLen(S, k) : k \in 0..n}

Max(a, b) == IF a >= b THEN a ELSE b

(***************************************************************************)
(* Errors.  msg is the message split at ": ", outermost part first, so the *)
(* head is the prefix chosen by the raising function and the tail is the   *)
(* text of the exception it wraps.                                         *)
(***************************************************************************)
NoError == [cls |-> "none", msg |-> <<>>]
Exc(c, m) == [cls |-> c, msg |-> <<m>>]
Raise(prefix, e) == [cls |-> ErrorClass, msg |-> <<prefix>> \o e.msg]

(***************************************************************************)
(* response_to_df                                                          *)
(***************************************************************************)
NoDF == [ok |-> FALSE, columns |-> <<>>, rows |-> <<>>]

\* An entry of the `data` array: an object whose "d" is absent, null or a list.
AbsentD == [d |-> "absent", row |-> <<>>]
NullD == [d |-> "null", row |-> <<>>]
Entry(r) == [d |-> "list", row |-> r]
\* The "d" lists drawn: every list of the configured width, and one list of
\* each other width from none to one value too many.
DRows ==
    SeqsOfLen(Cells, NumCols)
        \cup {[i \in 1..w |-> I1] : w \in (0..(NumCols + 1)) \ {NumCols}}
Entries == {AbsentD, NullD} \cup {Entry(r) : r \in DRows}

\* A response body: not JSON, or a JSON object whose "data" is absent, null
\* or a list of entries.
InvalidBody == [parse |-> "invalid", dataKey |-> "absent", data |-> <<>>]
NoDataBody == [parse |-> "object", dataKey |-> "absent", data |-> <<>>]
NullDataBody == [parse |-> "object", dataKey |-> "null", data |-> <<>>]
DataBody(es) == [parse |-> "object", dataKey |-> "list", data |-> es]
NoBody == [parse |-> "none", dataKey |-> "absent", data |-> <<>>]
Bodies ==
    {InvalidBody, NoDataBody, NullDataBody}
        \cup {DataBody(es) : es \in SeqsUpTo(Entries, MaxEntries)}

\* Slip: the entry is never taken as lacking "d".
GetD_NeverNull(entry) == Entry(entry.row)

\* row.get("d", None): None when the key is absent and when its value is null.
GetD(entry) == IF entry.d = "list" THEN Entry(entry.row) ELSE NullD

\* The loop of lines 74-80: the rows kept, in order.
RECURSIVE FilterRows(_)
FilterRows(data) ==
    IF data = <<>> THEN <<>>
    ELSE IF GetD(Head(data)).d = "null" THEN FilterRows(Tail(data))
    ELSE <<Head(data).row>> \o FilterRows(Tail(data))

\* logger.warning calls of the same loop.
RECURSIVE CountSkipped(_)
CountSkipped(data) ==
    IF data = <<>> THEN 0
    ELSE (IF GetD(Head(data)).d = "null" THEN 1 ELSE 0) + CountSkipped(Tail(data))

\* pandas pads short rows with None up to the longest row.
RECURSIVE MaxWidth(_)
MaxWidth(rows) ==
    IF rows = <<>> THEN 0 ELSE Max(Len(Head(rows)), MaxWidth(Tail(rows)))

PadRow(r, w) == [i \in 1..w |-> IF i <= Len(r) THEN r[i] ELSE Null]

Column(rows, j) == [i \in 1..Len(rows) |-> rows[i][j]]

\* dtype pandas infers for a column of Python objects.
ColumnDtype(col) ==
    LET types == {col[i][1] : i \in 1..Len(col)}
    IN  IF types = {"int"} THEN "int64"
        ELSE IF types \subseteq {"int", "float", "null"} /\ types # {"null"} THEN "float64"
        ELSE "object"

\* Value of a cell once its column has the dtype.
Coerce(cell, dtype) ==
    IF dtype = "float64" /\ cell[1] = "int" THEN <<"float", cell[2] \o ".0">>
    ELSE IF dtype = "float64" /\ cell[1] = "null" THEN <<"float", "nan">>
    ELSE cell

\* pd.DataFrame(rows, columns=columns), rows non empty.
FrameFits(rows, columns) == MaxWidth(rows) = Len(columns)

MakeDataFrame(rows, columns) ==
    LET w == Len(columns)
        padded == [i \in 1..Len(rows) |-> PadRow(rows[i], w)]
        dtypes == [j \in 1..w |-> ColumnDtype(Column(padded, j))]
    IN  [ok |-> TRUE,
         columns |-> columns,
         rows |-> [i \in 1..Len(rows) |->
                      [j \in 1..w |-> Coerce(padded[i][j], dtypes[j])]]]

\* Entries looked at by the loop before response_to_df ends.
InspectedBy(body) ==
    IF body.parse = "object" /\ body.dataKey = "list" /\ body.data # <<>>
    THEN Len(body.data) ELSE 0

\* The exception raised inside the try block of response_to_df, if any.
ExtractInner(body) ==
    IF body.parse = "invalid" THEN Exc("JSONDecodeError", "Expecting value")
    ELSE IF body.dataKey # "list" \/ body.data = <<>>
    THEN Exc(ErrorClass, "Unable to find 'data' key in response")
    ELSE IF FilterRows(body.data) = <<>>
    THEN Exc(ErrorClass, "Unable to find valid rows in response")
    ELSE IF ~FrameFits(FilterRows(body.data), COLUMNS)
    THEN Exc("ValueError", "columns passed, passed data had other columns")
    ELSE NoError

\* The except clauses of lines 96-101: JSONDecodeError has its own clause,
\* every other exception (TradingViewError included) goes to the last one.
ExtractHandler(e) ==
    IF e.cls = "JSONDecodeError" THEN Raise("Invalid JSON response", e)
    ELSE Raise("Response conversion failed", e)

ExtractError(body) ==
    IF ExtractInner(body) = NoError THEN NoError
    ELSE ExtractHandler(ExtractInner(body))

response_to_df(body) ==
    IF ExtractError(body) = NoError
    THEN MakeDataFrame(FilterRows(body.data), COLUMNS)
    ELSE NoDF

ExtractWarnings(body) ==
    IF body.parse = "object" /\ body.dataKey = "list" /\ body.data # <<>>
    THEN CountSkipped(body.data) ELSE 0

(***************************************************************************)
(* create_database_path: the calendar and strftime("%Y-%m-%d")             *)
(***************************************************************************)
StartDate == [y |-> 2023, m |-> 12, d |-> 31]

IsLeap(y) == (y % 4 = 0 /\ y % 100 # 0) \/ y % 400 = 0

DaysInMonth(y, m) ==
    IF m = 2 THEN (IF IsLeap(y) THEN 29 ELSE 28)
    ELSE IF m \in {4, 6, 9, 11} THEN 30 ELSE 31

NextDay(date) ==
    IF date.d < DaysInMonth(date.y, date.m) THEN [date EXCEPT !.d = @ + 1]
    ELSE IF date.m < 12 THEN [date EXCEPT !.m = @ + 1, !.d = 1]
    ELSE [y |-> date.y + 1, m |-> 1, d |-> 1]

\* The date `n` midnights after the start.
RECURSIVE DateOf(_)
DateOf(n) == IF n = 0 THEN StartDate ELSE NextDay(DateOf(n - 1))

DigitChars == <<"0", "1", "2", "3", "4", "5", "6", "7", "8", "9">>

RECURSIVE ZeroPad(_, _)
ZeroPad(n, width) ==
    IF width = 0 THEN (IF n = 0 THEN "" ELSE ZeroPad(n, 1))
    ELSE ZeroPad(n \div 10, width - 1) \o DigitChars[(n % 10) + 1]

strftime(date) ==
    ZeroPad(date.y, 4) \o "-" \o ZeroPad(date.m, 2) \o "-" \o ZeroPad(date.d, 2)

DbDir == "src/database"

\* Slip: "%Y-%d-%m" as the format.
PathFor_DayFirst(date) ==
    DbDir \o "/" \o ZeroPad(date.y, 4) \o "-" \o ZeroPad(date.d, 2) \o "-"
        \o ZeroPad(date.m, 2) \o ".db"

\* db_dir / f"{date_str}.db"
PathFor(date) == DbDir \o "/" \o strftime(date) \o ".db"

Days == 0..MaxDays
AllPaths == {PathFor(DateOf(n)) : n \in Days}
NoPath == ""

\* db_dir.mkdir(exist_ok=True): fails when src/ is missing and when
\* src/database exists and is not a directory.
MkdirError(dir) ==
    IF dir = "noparent" THEN Exc("FileNotFoundError", "No such file or directory")
    ELSE IF dir = "file" THEN Exc("FileExistsError", "File exists")
    ELSE NoError

MkdirResult(dir) == IF MkdirError(dir) = NoError THEN "dir" ELSE dir

CreatePathError(dir) ==
    IF MkdirError(dir) = NoError THEN NoError
    ELSE Raise("Database path creation failed", MkdirError(dir))

create_database_path(dir, now) ==
    IF CreatePathError(dir) = NoError THEN PathFor(DateOf(now)) ELSE NoPath

(***************************************************************************)
(* The store: sqlite3 files, DataFrame.to_sql and pd.read_sql_query        *)
(***************************************************************************)
NoTable == [present |-> FALSE, columns |-> <<>>, types |-> <<>>, rows |-> <<>>]
NoFile == [exists |-> FALSE, table |-> NoTable]

\* Declared column type pandas picks for a column of the frame.
SqlType(col) ==
    IF ColumnDtype(col) = "int64" THEN "INTEGER"
    ELSE IF ColumnDtype(col) = "float64" THEN "REAL"
    ELSE "TEXT"

\* What SQLite keeps when the cell is inserted into a column of that type:
\* NaN is sent as NULL, TEXT affinity turns numbers into their text.
StoreCell(cell, type) ==
    IF cell = <<"float", "nan">> THEN Null
    ELSE IF type = "TEXT" /\ cell[1] \in {"int", "float"} THEN <<"str", cell[2]>>
    ELSE cell

FrameTypes(frame) ==
    [j \in 1..Len(frame.columns) |-> SqlType(Column(frame.rows, j))]

\* CREATE TABLE of to_sql(if_exists="replace", index=False): the old table
\* is dropped, the new one has the frame's columns and no rows.
CreatedTable(frame) ==
    [present |-> TRUE, columns |-> frame.columns, types |-> FrameTypes(frame),
     rows |-> <<>>]

\* The table after the INSERT of every row of the frame.
WrittenTable(frame) ==
    [CreatedTable(frame) EXCEPT !.rows =
        [i \in 1..Len(frame.rows) |->
            [j \in 1..Len(frame.columns) |->
                StoreCell(frame.rows[i][j], FrameTypes(frame)[j])]]]

\* pd.read_sql_query("SELECT * FROM stock_data ...") on rows fetched.
ReadFrame(columns, rows) ==
    IF rows = <<>> THEN [ok |-> TRUE, columns |-> columns, rows |-> <<>>]
    ELSE MakeDataFrame(rows, columns)

ReadTable(file) == ReadFrame(file.table.columns, file.table.rows)

\* PRAGMA table_info(stock_data): one row per column, none without the table.
SchemaOf(file) ==
    [j \in 1..Len(file.table.columns) |->
        [cid |-> j - 1, name |-> file.table.columns[j],
         type |-> file.table.types[j], notnull |-> 0, pk |-> 0]]

FirstRows(rows, n) == IF Len(rows) <= n THEN rows ELSE SubSeq(rows, 1, n)

\* SELECT * FROM stock_data LIMIT 1, then to_dict(orient="records").
PreviewOf(file) ==
    LET frame == ReadFrame(file.table.columns, FirstRows(file.table.rows, 1))
    IN  [i \in 1..Len(frame.rows) |->
            [j \in 1..Len(frame.columns) |-> <<frame.columns[j], frame.rows[i][j]>>]]

NoText == [table |-> "", schema |-> <<>>, preview |-> <<>>]
OverviewText(file) ==
    [table |-> TableName, schema |-> SchemaOf(file), preview |-> PreviewOf(file)]

\* with sqlite3.connect(path) as conn: connect creates the file when it is
\* missing; leaving the block commits or rolls back and does not close.
\* How create_sql_db ends: "ok", or the step that failed.
SaveOutcomes == {"ok", "connect_fail", "create_fail", "insert_fail"}

\* Slip: if_exists="append".
SaveFile_Append(file, frame, out) ==
    IF out = "connect_fail" THEN file
    ELSE IF out = "create_fail" THEN [exists |-> TRUE, table |-> file.table]
    ELSE IF out = "insert_fail" THEN [exists |-> TRUE, table |-> CreatedTable(frame)]
    ELSE [exists |-> TRUE,
          table |-> [WrittenTable(frame) EXCEPT
                        !.rows = file.table.rows \o WrittenTable(frame).rows]]

SaveFile(file, frame, out) ==
    IF out = "connect_fail" THEN file
    ELSE IF out = "create_fail" THEN [exists |-> TRUE, table |-> file.table]
    ELSE IF out = "insert_fail" THEN [exists |-> TRUE, table |-> CreatedTable(frame)]
    ELSE [exists |-> TRUE, table |-> WrittenTable(frame)]

SaveCause(out) ==
    IF out = "connect_fail" THEN Exc("OperationalError", "unable to open database file")
    ELSE IF out = "create_fail" THEN Exc("OperationalError", "disk I/O error")
    ELSE IF out = "insert_fail" THEN Exc("ProgrammingError", "Error binding parameter")
    ELSE NoError

SaveError(out) ==
    IF out = "ok" THEN NoError
    ELSE Raise("Database save operation failed", SaveCause(out))

\* How the with block of get_table_overview ends.
ReadOutcomes == {"ok", "connect_fail", "schema_fail", "preview_fail"}

ReadFile(file, out) ==
    IF out = "connect_fail" THEN file ELSE [file EXCEPT !.exists = TRUE]

ReadCause(file, out) ==
    IF out = "connect_fail" THEN Exc("OperationalError", "unable to open database file")
    ELSE IF out = "schema_fail"
    THEN Exc("DatabaseError", "Execution failed on sql 'PRAGMA table_info(stock_data);'")
    ELSE IF out = "preview_fail"
    THEN Exc("DatabaseError", "Execution failed on sql 'SELECT * FROM stock_data LIMIT 1;'")
    ELSE IF ~file.table.present
    THEN Exc("DatabaseError", "no such table: stock_data")
    ELSE NoError

\* A connection object of the with block, once the function has ended.  It
\* is closed only when the interpreter finalizes the object: on return that
\* is up to the build, on raise the traceback still refers to the frame.
Conn(owner, path) == [owner |-> owner, path |-> path]

AfterWith(conns, conn, raised, finalized) ==
    IF ~raised /\ finalized THEN conns ELSE conns \cup {conn}

(***************************************************************************)
(* get_response                                                            *)
(***************************************************************************)
HttpStatuses == {200, 500}

\* Slip: only client errors are raised.
IsHttpError_Only4xx(status) == 400 <= status /\ status < 500

\* response.raise_for_status()
IsHttpError(status) == 400 <= status /\ status < 600

\* Bodies the scanner endpoint answers with in the pipeline.
GoodBody == DataBody(<<Entry(<<I1, SA>>)>>)
MixedBody == DataBody(<<Entry(<<SA, SA>>), AbsentD, Entry(<<I1, SA>>)>>)
FetchBodies ==
    {InvalidBody, NoDataBody, DataBody(<<AbsentD>>), DataBody(<<Entry(<<I1>>)>>),
     GoodBody, MixedBody}

FetchOutcomes ==
    {[net |-> n, status |-> 0, body |-> NoBody] : n \in {"timeout", "connection", "other"}}
        \cup {[net |-> "response", status |-> 500, body |-> NoBody]}
        \cup {[net |-> "response", status |-> 200, body |-> b] : b \in FetchBodies}

FetchError(out) ==
    IF out.net = "timeout" THEN Raise("API request timeout", Exc("Timeout", "Read timed out"))
    ELSE IF out.net = "connection"
    THEN Raise("Connection failed", Exc("ConnectionError", "Connection refused"))
    ELSE IF out.net = "other"
    THEN Raise("Unable to access TradingView API", Exc("RequestException", "Invalid URL"))
    ELSE IF IsHttpError(out.status)
    THEN Raise("HTTP error", Exc("HTTPError", "500 Server Error"))
    ELSE NoError

get_response(out) == IF FetchError(out) = NoError THEN out.body ELSE NoBody

(***************************************************************************)
(* scrape_data and get_table_overview                                      *)
(***************************************************************************)
NoResult == [kind |-> "none", err |-> NoError, text |-> NoText]
Returned == [kind |-> "returned", err |-> NoError, text |-> NoText]
Failed(e) == [kind |-> "error", err |-> e, text |-> NoText]
Text(t) == [kind |-> "text", err |-> NoError, text |-> t]

\* except TradingViewError: raise / except Exception: wrap (lines 164-169)
ScrapeHandler(e) ==
    IF e.cls = ErrorClass THEN e ELSE Raise("Error while scraping data", e)

\* Slip: the cause is re-raised as it is.
OverviewHandler_Unwrapped(e) == e

\* except Exception: wrap (lines 224-226)
OverviewHandler(e) == Raise("Unable to get table overview", e)

\* The error the operation in progress ends with when a helper called from
\* scrape_data raises e.
PopulateError(c, e) ==
    IF c = "overview" THEN OverviewHandler(ScrapeHandler(e)) ELSE ScrapeHandler(e)

Stage(name, e) == <<name, IF e = NoError THEN "ok" ELSE "fail">>

Ends(r) == pc' = "idle" /\ result' = r /\ UNCHANGED call

TypeOK ==
    /\ today \in Days
    /\ baseDir \in {"absent", "dir", "file", "noparent"}
    /\ DOMAIN files = AllPaths
    /\ call \in {"none", "overview", "scrape"}
    /\ pc \in {"idle", "ov_path", "ov_exists", "fetch", "extract", "sc_path", "save", "read"}
    /\ database_path \in AllPaths \cup {NoPath}
    /\ db_path \in AllPaths \cup {NoPath}
    /\ result.kind \in {"none", "returned", "error", "text"}
    /\ existed \in {"unknown", "absent", "present"}
    /\ httpStatus \in HttpStatuses \cup {0}
    /\ fetches \in Nat /\ writes \in Nat /\ warnings \in Nat /\ inspected \in Nat

Locals0 ==
    /\ database_path = NoPath
    /\ db_path = NoPath
    /\ httpStatus = 0
    /\ response = NoBody
    /\ df = NoDF
    /\ result = NoResult
    /\ trace = <<>>
    /\ warnings = 0
    /\ inspected = 0
    /\ fetches = 0
    /\ writes = 0
    /\ existed = "unknown"

Init ==
    /\ today = 0
    /\ baseDir \in {"absent", "dir", "file", "noparent"}
    /\ files = [p \in AllPaths |-> NoFile]
    /\ openConns = {}
    /\ call = "none"
    /\ pc = "idle"
    /\ files0 = files
    /\ pathLog = {}
    /\ Locals0

\* A caller invokes get_table_overview() or scrape_data().
Begin(c, at) ==
    /\ pc = "idle"
    /\ call' = c
    /\ pc' = at
    /\ database_path' = NoPath
    /\ db_path' = NoPath
    /\ httpStatus' = 0
    /\ response' = NoBody
    /\ df' = NoDF
    /\ result' = NoResult
    /\ trace' = <<>>
    /\ warnings' = 0
    /\ inspected' = 0
    /\ fetches' = 0
    /\ writes' = 0
    /\ existed' = "unknown"
    /\ files0' = files
    /\ UNCHANGED <<today, baseDir, files, openConns, pathLog>>

CallOverview == Begin("overview", "ov_path")

CallScrape == Begin("scrape", "fetch")

\* Line 191: database_path = create_database_path()
OverviewPath ==
    /\ call = "overview" /\ pc = "ov_path"
    /\ LET e == CreatePathError(baseDir)
       IN  /\ trace' = Append(trace, Stage("path", e))
           /\ baseDir' = MkdirResult(baseDir)
           /\ IF e = NoError
              THEN /\ database_path' = create_database_path(baseDir, today)
                   /\ pathLog' = pathLog \cup {<<today, database_path'>>}
                   /\ pc' = "ov_exists"
                   /\ UNCHANGED <<call, result>>
              ELSE /\ Ends(Failed(OverviewHandler(e)))
                   /\ UNCHANGED <<database_path, pathLog>>
    /\ UNCHANGED <<today, files, openConns, db_path, httpStatus, response, df, warnings,
                   inspected, fetches, writes, files0, existed>>

\* Slip: the test is inverted.
PathExists_Negated(fs, path) == ~fs[path].exists

\* Lines 194-198: if not database_path.exists(): scrape_data()
PathExists(fs, path) == fs[path].exists

CheckExistence ==
    /\ call = "overview" /\ pc = "ov_exists"
    /\ existed' = IF PathExists(files, database_path) THEN "present" ELSE "absent"
    /\ pc' = IF PathExists(files, database_path) THEN "read" ELSE "fetch"
    /\ UNCHANGED <<today, baseDir, files, openConns, call, database_path, db_path,
                   httpStatus, response, df, result, trace, warnings, inspected, fetches,
                   writes, files0, pathLog>>

\* Line 147: response = get_response()
Fetch ==
    /\ pc = "fetch"
    /\ \E out \in FetchOutcomes :
         LET e == FetchError(out)
         IN  /\ fetches' = fetches + 1
             /\ trace' = Append(trace, Stage("fetch", e))
             /\ httpStatus' = out.status
             /\ response' = get_response(out)
             /\ IF e = NoError
                THEN pc' = "extract" /\ UNCHANGED <<call, result>>
                ELSE Ends(Failed(PopulateError(call, e)))
    /\ UNCHANGED <<today, baseDir, files, openConns, database_path, db_path, df,
                   warnings, inspected, writes, files0, existed, pathLog>>

\* Line 151: df = response_to_df(response)
Extract ==
    /\ pc = "extract"
    /\ LET e == ExtractError(response)
       IN  /\ df' = response_to_df(response)
           /\ warnings' = ExtractWarnings(response)
           /\ inspected' = InspectedBy(response)
           /\ trace' = Append(trace, Stage("extract", e))
           /\ IF e = NoError
              THEN pc' = "sc_path" /\ UNCHANGED <<call, result>>
              ELSE Ends(Failed(PopulateError(call, e)))
    /\ UNCHANGED <<today, baseDir, files, openConns, database_path, db_path,
                   httpStatus, response, fetches, writes, files0, existed, pathLog>>

\* Line 155: db_path = create_database_path()
ScrapePath ==
    /\ pc = "sc_path"
    /\ LET e == CreatePathError(baseDir)
       IN  /\ trace' = Append(trace, Stage("path", e))
           /\ baseDir' = MkdirResult(baseDir)
           /\ IF e = NoError
              THEN /\ db_path' = create_database_path(baseDir, today)
                   /\ pathLog' = pathLog \cup {<<today, db_path'>>}
                   /\ pc' = "save"
                   /\ UNCHANGED <<call, result, df>>
              ELSE /\ Ends(Failed(PopulateError(call, e)))
                   /\ df' = NoDF
                   /\ UNCHANGED <<db_path, pathLog>>
    /\ UNCHANGED <<today, files, openConns, database_path, httpStatus, response, warnings,
                   inspected, fetches, writes, files0, existed>>

\* create_sql_db(path, frame) called from c, after the stages tr and w
\* earlier store writes; scrape_data returns after it.
create_sql_db(c, path, frame, tr, w) ==
    /\ \E out \in SaveOutcomes, finalized \in BOOLEAN :
         LET e == SaveError(out)
         IN  /\ out \in {"connect_fail", "create_fail", "insert_fail"} => finalized
             /\ files' = [files EXCEPT ![path] = SaveFile(@, frame, out)]
             /\ writes' = IF out = "connect_fail" THEN w ELSE w + 1
             /\ openConns' =
                  IF out = "connect_fail" THEN openConns
                  ELSE AfterWith(openConns, Conn("create_sql_db", path),
                                 e # NoError, finalized)
             /\ trace' = Append(tr, Stage("save", e))
             /\ IF e # NoError
                THEN Ends(Failed(PopulateError(c, e))) /\ df' = NoDF
                ELSE IF c = "overview"
                THEN pc' = "read" /\ df' = frame /\ UNCHANGED <<call, result>>
                ELSE Ends(Returned) /\ df' = frame
    /\ UNCHANGED <<today, baseDir, database_path, db_path, httpStatus, response,
                   warnings, inspected, fetches, existed, pathLog>>

\* Line 159: create_sql_db(db_path, df)
Save ==
    /\ pc = "save"
    /\ create_sql_db(call, db_path, df, trace, writes)
    /\ UNCHANGED files0

\* Lines 200-222: read the schema and the preview, format, return.
Read ==
    /\ call = "overview" /\ pc = "read"
    /\ \E out \in ReadOutcomes, finalized \in BOOLEAN :
         LET file == ReadFile(files[database_path], out)
             e == ReadCause(file, out)
         IN  /\ e # NoError => finalized
             /\ files' = [files EXCEPT ![database_path] = file]
             /\ openConns' =
                  IF out = "connect_fail" THEN openConns
                  ELSE AfterWith(openConns, Conn("get_table_overview", database_path),
                                 e # NoError, finalized)
             /\ trace' = Append(trace, Stage("read", e))
             /\ IF e = NoError
                THEN Ends(Text(OverviewText(file)))
                ELSE Ends(Failed(OverviewHandler(e)))
    /\ UNCHANGED <<today, baseDir, database_path, db_path, httpStatus, response, df, warnings,
                   inspected, fetches, writes, files0, existed, pathLog>>

\* Midnight passes.
Tick ==
    /\ today < MaxDays
    /\ today' = today + 1
    /\ UNCHANGED <<baseDir, files, openConns, call, pc, database_path, db_path,
                   httpStatus, response, df, result, trace, warnings, inspected, fetches,
                   writes, files0, existed, pathLog>>

\* Between operations the interpreter finalizes the connection objects that
\* nothing refers to any more, which closes them.
Finalize ==
    /\ pc = "idle"
    /\ openConns # {}
    /\ openConns' = {}
    /\ UNCHANGED <<today, baseDir, files, call, pc, database_path, db_path,
                   httpStatus, response, df, result, trace, warnings, inspected, fetches,
                   writes, files0, existed, pathLog>>

Next ==
    \/ CallOverview
    \/ CallScrape
    \/ OverviewPath
    \/ CheckExistence
    \/ Fetch
    \/ Extract
    \/ ScrapePath
    \/ Save
    \/ Read
    \/ Tick
    \/ Finalize

Spec == Init /\ [][Next]_vars

(***************************************************************************)
(* response_to_df alone: the body is any body of Bodies.                   *)
(***************************************************************************)
ExtractInit ==
    /\ today = 0
    /\ baseDir = "dir"
    /\ files = [p \in AllPaths |-> NoFile]
    /\ openConns = {}
    /\ call = "scrape"
    /\ pc = "extract"
    /\ files0 = files
    /\ pathLog = {}
    /\ database_path = NoPath
    /\ db_path = NoPath
    /\ httpStatus = 200
    /\ response \in Bodies
    /\ df = NoDF
    /\ result = NoResult
    /\ trace = <<<<"fetch", "ok">>>>
    /\ warnings = 0
    /\ inspected = 0
    /\ fetches = 1
    /\ writes = 0
    /\ existed = "unknown"

ExtractNext == Extract

SpecExtract == ExtractInit /\ [][ExtractNext]_vars

(***************************************************************************)
(* create_sql_db alone: any sequence of saves of any frames on one path.   *)
(***************************************************************************)
StoreCells == {I1, SA}
StoreFrames ==
    {MakeDataFrame(rows, COLUMNS) :
        rows \in UNION {SeqsOfLen(SeqsOfLen(StoreCells, NumCols), k) : k \in 1..MaxRows}}

StoreInit ==
    /\ today = 0
    /\ baseDir = "dir"
    /\ files = [p \in AllPaths |-> NoFile]
    /\ openConns = {}
    /\ call = "scrape"
    /\ pc = "idle"
    /\ files0 = files
    /\ pathLog = {}
    /\ database_path = NoPath
    /\ db_path = PathFor(DateOf(0))
    /\ httpStatus = 0
    /\ response = NoBody
    /\ df = NoDF
    /\ result = NoResult
    /\ trace = <<>>
    /\ warnings = 0
    /\ inspected = 0
    /\ fetches = 0
    /\ writes = 0
    /\ existed = "unknown"

\* A caller invokes create_sql_db(db_path, frame); here writes counts the
\* store connections of the whole sequence of calls.
StoreSave ==
    /\ pc = "idle"
    /\ writes < MaxSaves
    /\ UNCHANGED files0
    /\ \E frame \in StoreFrames : create_sql_db("scrape", db_path, frame, <<>>, writes)

StoreNext == StoreSave \/ Finalize

SpecStore == StoreInit /\ [][StoreNext]_vars

(***************************************************************************)
(* Properties                                                              *)
(***************************************************************************)
StageNames(tr) == [i \in 1..Len(tr) |-> tr[i][1]]

IsPrefix(s, t) == Len(s) <= Len(t) /\ \A i \in 1..Len(s) : s[i] = t[i]

AllOk(tr) == \A i \in 1..Len(tr) : tr[i][2] = "ok"

KindOf(e) == IF e.msg = <<>> THEN "" ELSE Head(e.msg)

PopulateThenRead == <<"path", "fetch", "extract", "path", "save", "read">>

ReadOnly == <<"path", "read">>

\* C1: in a call of get_table_overview the populate stages (fetch, extract,
\* save, in that order) run exactly when the snapshot file was absent at the
\* existence check; with the file present the call goes straight to the read
\* and fetches, extracts and writes nothing; the read only follows a save
\* that has succeeded.
C1_PopulateIffAbsent ==
    call = "overview" =>
        /\ existed = "unknown" => Len(trace) <= 1 /\ fetches = 0 /\ writes = 0
        /\ existed = "present" =>
              /\ files0[database_path].exists
              /\ IsPrefix(StageNames(trace), ReadOnly)
              /\ fetches = 0 /\ writes = 0 /\ files = files0
              /\ pc \in {"read", "idle"}
        /\ existed = "absent" =>
              /\ ~files0[database_path].exists
              /\ IsPrefix(StageNames(trace), PopulateThenRead)
              /\ pc = "fetch" \/ (Len(trace) >= 2 /\ fetches = 1)
              /\ pc = "read" => Len(trace) = 5 /\ AllOk(trace)
              /\ Len(trace) = 6 => trace[5] = <<"save", "ok">> /\ writes = 1

C1_Witness ==
    /\ call = "overview" /\ pc = "idle" /\ existed = "absent"
    /\ result.kind = "text" /\ StageNames(trace) = PopulateThenRead

IsKept(entry) == entry.d = "list"

Survivors(data) == SelectSeq(data, IsKept)

Lacking(data) == Cardinality({i \in 1..Len(data) : ~IsKept(data[i])})

\* Every surviving "d" holds exactly one non-null value per configured column.
WellFormedRows(data) ==
    \A i \in 1..Len(data) :
        IsKept(data[i]) =>
            /\ Len(data[i].row) = NumCols
            /\ \A j \in 1..Len(data[i].row) : data[i].row[j] # Null

Extracted == call = "scrape" /\ pc # "extract" /\ response.parse # "none"

HasSurvivor ==
    /\ response.parse = "object" /\ response.dataKey = "list"
    /\ Lacking(response.data) < Len(response.data)

ExtractsSurvivors ==
    /\ result.kind # "error"
    /\ df.ok
    /\ df.columns = COLUMNS
    /\ Len(df.rows) = Len(response.data) - Lacking(response.data)
    /\ \A i \in 1..Len(df.rows) : df.rows[i] = Survivors(response.data)[i].row
    /\ warnings = Lacking(response.data)

ResponseParseError == "Invalid JSON response"
MissingDataField == "Unable to find 'data' key in response"
NoValidRows == "Unable to find valid rows in response"
FetchHTTPError == "HTTP error"
OverviewError == "Unable to get table overview"

\* C3: response_to_df fails with the kind of the first failing check:
\* ResponseParseError for an unparsable body, MissingDataField for an absent
\* or empty data field (before any entry is inspected), NoValidRows when
\* every entry lacks "d"; no frame is returned in any of these cases.
C3_Original ==
    Extracted =>
        /\ response.parse = "invalid" =>
              result.kind = "error" /\ ~df.ok
                  /\ KindOf(result.err) = ResponseParseError
        /\ (response.parse = "object"
                /\ (response.dataKey # "list" \/ response.data = <<>>)) =>
              result.kind = "error" /\ ~df.ok /\ inspected = 0
                  /\ KindOf(result.err) = MissingDataField
        /\ (response.parse = "object" /\ response.dataKey = "list"
                /\ response.data # <<>>
                /\ Lacking(response.data) = Len(response.data)) =>
              result.kind = "error" /\ ~df.ok
                  /\ KindOf(result.err) = NoValidRows

\* No column of the frame holds both a number and a text.
NoMixedColumn(frame) ==
    \A j \in 1..Len(frame.columns) :
        LET types == {frame.rows[i][j][1] : i \in 1..Len(frame.rows)}
        IN  ~("str" \in types /\ types \cap {"int", "float"} # {})

Saved == call = "scrape" /\ pc = "idle" /\ result.kind = "returned"

\* C4 as stated: after any sequence of successful create_sql_db calls on one
\* path the table read back equals the frame of the last call.
C4_Original == Saved => ReadTable(files[db_path]) = df

\* C4: after any sequence of create_sql_db calls on one path, once the last
\* call has succeeded the table read back equals the frame of that call
\* (same columns, same rows, same order, nothing of an earlier call left),
\* provided no column of that frame holds both numbers and text.
C4_FullReplace ==
    (Saved /\ NoMixedColumn(df)) =>
        /\ files[db_path].table.present
        /\ files[db_path].table.columns = df.columns
        /\ ReadTable(files[db_path]) = df

C4_Witness ==
    /\ Saved /\ NoMixedColumn(df) /\ writes >= 2
    /\ Len(df.rows) = 1 /\ ReadTable(files[db_path]) = df

\* C5: when the request is answered with a non-success status the operation
\* ends at once with the HTTP error carrying its cause, after exactly one
\* request, without a store write and with every file as it was.
C5_HttpErrorNoWrite ==
    httpStatus >= 400 =>
        /\ pc = "idle" /\ result.kind = "error"
        /\ result.err.cls = ErrorClass
        /\ LET at == IF call = "overview" THEN 2 ELSE 1
           IN  Len(result.err.msg) > at /\ result.err.msg[at] = FetchHTTPError
        /\ fetches = 1
        /\ writes = 0
        /\ files = files0
        /\ trace[Len(trace)] = <<"fetch", "fail">>

C5_Witness ==
    /\ httpStatus = 500 /\ pc = "idle" /\ result.kind = "error"
    /\ \E p \in AllPaths : files[p].table.rows # <<>>

\* C6: no store connection is open once create_sql_db or the read of
\* get_table_overview has returned or raised.
C6_Original == openConns = {}

\* C7: a finished call of get_table_overview has returned the text after
\* every stage succeeded, or has failed with one overview error wrapping the
\* cause of the stage that failed; a failed stage ends the call, and no
\* stage runs twice.
C7_TextOrOverviewError ==
    call = "overview" =>
        /\ ~AllOk(trace) => pc = "idle" /\ result.kind = "error"
        /\ fetches <= 1 /\ writes <= 1
        /\ IsPrefix(StageNames(trace), PopulateThenRead)
              \/ IsPrefix(StageNames(trace), ReadOnly)
        /\ pc = "idle" =>
              \/ /\ result.kind = "text"
                 /\ AllOk(trace)
                 /\ StageNames(trace) \in {PopulateThenRead, ReadOnly}
                 /\ result.text.table = TableName
              \/ /\ result.kind = "error"
                 /\ result.err.cls = ErrorClass
                 /\ KindOf(result.err) = OverviewError
                 /\ Len(result.err.msg) >= 2
                 /\ trace[Len(trace)][2] = "fail"
                 /\ AllOk(SubSeq(trace, 1, Len(trace) - 1))

C7_Witness ==
    /\ call = "overview" /\ pc = "idle" /\ result.kind = "error"
    /\ Len(result.err.msg) = 3 /\ result.err.msg[2] = "Response conversion failed"
    /\ trace[Len(trace)] = <<"extract", "fail">>

ExpectedPaths ==
    <<"src/database/2023-12-31.db", "src/database/2024-01-01.db",
      "src/database/2024-01-02.db", "src/database/2024-01-03.db">>

PathsAreByDate ==
    /\ \A e \in pathLog : e[2] = ExpectedPaths[e[1] + 1]
    /\ \A a, b \in pathLog : a[1] = b[1] => a[2] = b[2]
    /\ pathLog # {} => baseDir = "dir"

PathStepKeepsFiles ==
    (OverviewPath \/ ScrapePath) =>
        /\ files' = files
        /\ baseDir = "dir" => baseDir' = "dir"
        /\ pathLog' # pathLog => baseDir' = "dir"

\* C8: the path create_database_path returns is <base>/<YYYY-MM-DD>.db of the
\* current date, the same for every call made on that date; a call that
\* returns leaves the base directory in place, changes nothing when the
\* directory was there, and creates no snapshot file.
C8_PathByDate == []PathsAreByDate /\ [][PathStepKeepsFiles]_vars

C8_Witness ==
    /\ call = "overview" /\ pc = "save" /\ today = 1
    /\ database_path = db_path /\ database_path = ExpectedPaths[2]

\* C9: in a call of get_table_overview that populates, the path the read
\* opens is the path the save has written.
C9_Original ==
    (call = "overview" /\ pc = "read" /\ existed = "absent") =>
        /\ database_path = db_path
        /\ files[database_path].table.rows # <<>>

\* C10: between operations, today's snapshot file, when it exists, holds the
\* table with at least one row.
C10_Original ==
    pc = "idle" =>
        LET file == files[PathFor(DateOf(today))]
        IN  file.exists => file.table.present /\ file.table.rows # <<>>
====
